---------------------------- MODULE Spec2Model ----------------------------
(***************************************************************************)
(* Model of ubx-parse.c: the fixed-point scaling helpers and the six UBX   *)
(* message decoders that fill a struct gps_assist_data.                    *)
(*                                                                         *)
(* A floating-point value is the record [m, e] standing for m * 2^e.  The  *)
(* helpers only multiply by 2.0 and 0.5, which binary floating point does  *)
(* exactly (it only moves the exponent), so the record follows the C value *)
(* bit for bit as long as the value stays finite and normal; a value that  *)
(* leaves that range cannot be cast to int with a defined result anyway    *)
(* (too large) or truncates to 0 either way (too small).                   *)
(***************************************************************************)
EXTENDS Integers, Sequences, FiniteSets, TLC

VARIABLES
    gps,        \* struct gps_assist_data *ud, the accumulator
    msg,        \* the message of the decoder call that ran last
    out,        \* what that call printed: lines on stderr and on stdout
    oob,        \* the satellite arrays that were written past their end
    ephArrivals,\* history: sv_id of every committed AID-EPH, in call order
    lastTime,   \* history: the last AID-INI / NAV-TIMEGPS message
    sc,         \* one call of a scaling helper: input, result, iterations
    profile     \* which decoder the explored run feeds with its full input set

vars == <<gps, msg, out, oob, ephArrivals, lastTime, sc, profile>>

---------------------------------------------------------------------------
(* Bounds of the model. *)

\* Capacity of almanac.svs[] and ephemeris.svs[] (MAX_SV of gps.h), scaled
\* down so that lists fill up and run over within the explored runs.
MAX_SV == 2
\* The unguarded counters are followed one step past MAX_SV.
NSvCap == MAX_SV + 1
\* Inputs of the scaling helpers: m in -MaxMant..MaxMant, e in -MaxExp..MaxExp,
\* sf in -MaxSf..MaxSf plus the scale factors the decoders use.
MaxMant == 5
MaxExp == 3
MaxSf == 3

\* int is 32 bits wide.
INT_MAX == 2147483647
INT_MIN == -2147483647 - 1

---------------------------------------------------------------------------
(* Floating-point values and the cast to int. *)

Abs(x) == IF x < 0 THEN -x ELSE x

Float(m, e) == [m |-> m, e |-> e]

\* f *= 2.0f  /  d *= 2.0
MulTwo(f) == [f EXCEPT !.e = @ + 1]

\* The doubling statement pasted into the halving loop.
MulHalfPasted(f) == [f EXCEPT !.e = @ + 1]

\* f *= 0.5f  /  d *= 0.5
MulHalf(f) == [f EXCEPT !.e = @ - 1]

\* Largest k with k * 2^e <= INT_MAX.
MaxMag(e) == IF e >= 31 THEN 0 ELSE INT_MAX \div (2 ^ e)

\* (int)f has a defined result only if the truncated value is an int.
CastDefined(f) ==
    \/ f.m = 0
    \/ f.e < 0
    \/ f.m > 0 /\ f.m <= MaxMag(f.e)
    \/ f.m < 0 /\ f.e <= 31 /\ -f.m - 1 <= MaxMag(f.e)

\* A plausible slip: rounding toward minus infinity instead of toward zero.
CastFloor(f) ==
    IF f.m = 0 THEN 0
    ELSE IF f.e >= 0 THEN (IF f.e = 31 THEN INT_MIN ELSE f.m * (2 ^ f.e))
    ELSE IF -f.e >= 31 THEN (IF f.m < 0 THEN -1 ELSE 0)
    ELSE f.m \div (2 ^ (-f.e))

\* (int)f where defined: the value with its fraction dropped.
CastInt(f) ==
    IF f.m = 0 THEN 0
    ELSE IF f.e >= 0 THEN (IF f.e = 31 THEN INT_MIN ELSE f.m * (2 ^ f.e))
    ELSE IF -f.e >= 31 THEN 0
    ELSE IF f.m < 0 THEN -((-f.m) \div (2 ^ (-f.e)))
    ELSE f.m \div (2 ^ (-f.e))

\* What an out-of-range cast may return: the "integer indefinite" value of
\* x86, the saturated values of other targets, or nothing useful.
UndefinedInt == {INT_MIN, INT_MAX, 0}

\* return (int)f;
Cast(f) == IF CastDefined(f) THEN {CastInt(f)} ELSE UndefinedInt

---------------------------------------------------------------------------
(* float_to_fixedpoint and double_to_fixedpoint. *)

\* while (sf++ < 0) f *= 2.0f;
RECURSIVE float_while_neg(_, _, _)
float_while_neg(f, sf, n) ==
    IF sf < 0 THEN float_while_neg(MulTwo(f), sf + 1, n + 1)
    ELSE [f |-> f, iters |-> n]

\* while (sf-- > 0) f *= 0.5f;
RECURSIVE float_while_pos(_, _, _)
float_while_pos(f, sf, n) ==
    IF sf > 0 THEN float_while_pos(MulHalf(f), sf - 1, n + 1)
    ELSE [f |-> f, iters |-> n]

\* The body of float_to_fixedpoint up to the return: the scaled value and
\* the number of times a loop body ran.
float_scaled(f, sf) ==
    IF sf < 0 THEN float_while_neg(f, sf, 0) ELSE float_while_pos(f, sf, 0)

float_to_fixedpoint(f, sf) == Cast(float_scaled(f, sf).f)

\* while (sf++ < 0) d *= 2.0;
RECURSIVE double_while_neg(_, _, _)
double_while_neg(d, sf, n) ==
    IF sf < 0 THEN double_while_neg(MulTwo(d), sf + 1, n + 1)
    ELSE [f |-> d, iters |-> n]

\* while (sf-- > 0) d *= 0.5;
RECURSIVE double_while_pos(_, _, _)
double_while_pos(d, sf, n) ==
    IF sf > 0 THEN double_while_pos(MulHalf(d), sf - 1, n + 1)
    ELSE [f |-> d, iters |-> n]

double_scaled(d, sf) ==
    IF sf < 0 THEN double_while_neg(d, sf, 0) ELSE double_while_pos(d, sf, 0)

double_to_fixedpoint(d, sf) == Cast(double_scaled(d, sf).f)

---------------------------------------------------------------------------
(* The accumulator and the messages. *)

\* gps->fields |= GPS_FIELD_x : the capability flags, as a set of names.
GPS_FIELDS == {"REFPOS", "REFTIME", "UTC", "IONOSPHERE", "ALMANAC", "EPHEMERIS"}

\* (double)raw * 1e-k, kept as the product it is.
MulPow10(raw, k) == [raw |-> raw, exp10 |-> -k]

\* a & b on non-negative operands.
RECURSIVE BitAnd(_, _)
BitAnd(a, b) ==
    IF a = 0 \/ b = 0 THEN 0
    ELSE (a % 2) * (b % 2) + 2 * BitAnd(a \div 2, b \div 2)

\* utc_tot >> 12 (arithmetic shift of a signed 32-bit value).
ShiftRight12(x) == x \div 4096

\* An int on the left of a comparison with a sizeof: converted to size_t.
\* A negative n becomes SIZE_MAX + 1 + n, kept as the carry and n.
IntToSizeT(n) == [carry |-> IF n < 0 THEN 1 ELSE 0, low |-> n]

\* sizeof(struct ubx_aid_alm): sv_id, gps_week and 8 words of 4 bytes each.
SizeofAidAlm == 40
\* sizeof(struct ubx_aid_eph): sv_id, present and 24 words of 4 bytes each.
SizeofAidEph == 104

SvIndex == 0 .. (MAX_SV - 1)

ZeroSv == [sv_id |-> 0, data |-> 0]

\* The accumulator as its owner hands it over: all zero.
ZeroGps ==
    [ fields     |-> {},
      ref_time   |-> [wn |-> 0, tow |-> 0, when |-> 0],
      ref_pos    |-> [latitude |-> 0, longitude |-> 0, altitude |-> 0],
      utc        |-> [a0 |-> 0, a1 |-> 0, delta_t_ls |-> 0, t_ot |-> 0,
                      wn_t |-> 0, wn_lsf |-> 0, dn |-> 0, delta_t_lsf |-> 0],
      ionosphere |-> [alpha_0 |-> 0, alpha_1 |-> 0, alpha_2 |-> 0, alpha_3 |-> 0,
                      beta_0 |-> 0, beta_1 |-> 0, beta_2 |-> 0, beta_3 |-> 0],
      almanac    |-> [wna |-> 0, n_sv |-> 0, svs |-> [i \in SvIndex |-> ZeroSv]],
      ephemeris  |-> [n_sv |-> 0, svs |-> [i \in SvIndex |-> ZeroSv]] ]

\* Every run feeds all six decoders; the profile names the one that gets
\* its full set of inputs, the others get a single message each.
Profiles == {"alm", "eph", "time", "hui"}

\* time(NULL)
Clock == IF profile = "time" THEN {1, 2} ELSE {1}

\* Lines printed by one call.
Printed(err, dbg) == [stderr |-> err, stdout |-> dbg]

\* Payload lengths handed to the length-checking decoders.
PlLens == {-1, 0, 8, SizeofAidAlm, SizeofAidEph}

SvIds == {1, 2}

NavPosllhMsgs ==
    { [type |-> "NAV_POSLLH", pl_len |-> 28, itow |-> 1000,
       lat |-> 373382270, lon |-> -1220041450, height |-> 30000] }

AidIniMsgs ==
    { [type |-> "AID_INI", pl_len |-> 48, wn |-> w, tow |-> 345600000,
       flags |-> fl] :
        w \in (IF profile = "time" THEN {2100, 2101} ELSE {2100}),
        fl \in (IF profile = "time" THEN {0, 1, 2, 3, 7} ELSE {3}) }

NavTimegpsMsgs ==
    { [type |-> "NAV_TIMEGPS", pl_len |-> 16, week |-> w, itow |-> 1000] :
        w \in (IF profile = "time" THEN {2101, 2102} ELSE {2101}) }

HuiPayloadA ==
    [ utc_a0 |-> Float(3, -30), utc_a1 |-> Float(-5, -51), utc_ls |-> 18,
      utc_tot |-> 405504, utc_wnt |-> 2100, utc_wnf |-> 2102, utc_dn |-> 7,
      utc_lsf |-> 19,
      klob_a0 |-> Float(1, -28), klob_a1 |-> Float(-3, -28),
      klob_a2 |-> Float(-1, -24), klob_a3 |-> Float(3, -25),
      klob_b0 |-> Float(3, 15), klob_b1 |-> Float(-1, 14),
      klob_b2 |-> Float(-5, 15), klob_b3 |-> Float(1, 18) ]

HuiPayloadB ==
    [ utc_a0 |-> Float(-1, -29), utc_a1 |-> Float(1, -50), utc_ls |-> 17,
      utc_tot |-> 4095, utc_wnt |-> 2099, utc_wnf |-> 2099, utc_dn |-> 1,
      utc_lsf |-> 17,
      klob_a0 |-> Float(5, -31), klob_a1 |-> Float(1, -27),
      klob_a2 |-> Float(1, -25), klob_a3 |-> Float(-1, -23),
      klob_b0 |-> Float(1, 10), klob_b1 |-> Float(3, 14),
      klob_b2 |-> Float(1, 16), klob_b3 |-> Float(-3, 16) ]

AidHuiMsgs ==
    { [type |-> "AID_HUI", pl_len |-> 72, flags |-> fl, pl |-> p] :
        fl \in (IF profile = "hui" THEN 0 .. 7 ELSE {6}),
        p \in (IF profile = "hui" THEN {HuiPayloadA, HuiPayloadB}
                                  ELSE {HuiPayloadA}) }

AidAlmMsgs ==
    { [type |-> "AID_ALM", pl_len |-> n, sv_id |-> sv, gps_week |-> wk,
       alm_words |-> 7] :
        n \in (IF profile = "alm" THEN PlLens ELSE {SizeofAidAlm}),
        sv \in (IF profile = "alm" THEN SvIds ELSE {1}),
        wk \in (IF profile = "alm" THEN {0, 300} ELSE {300}) }

AidEphMsgs ==
    { [type |-> "AID_EPH", pl_len |-> n, sv_id |-> sv, present |-> pr,
       eph_words |-> 8] :
        n \in (IF profile = "eph" THEN PlLens ELSE {SizeofAidEph}),
        sv \in (IF profile = "eph" THEN SvIds ELSE {1}),
        pr \in (IF profile = "eph" THEN {0, 1} ELSE {1}) }

---------------------------------------------------------------------------
(* The bit-unpacking collaborators of gps.c. *)

\* gps_unpack_sf45_almanac(words, &rec): fills the whole record from the
\* subframe words, its sv_id included.
gps_unpack_sf45_almanac(words, rec) == [sv_id |-> words, data |-> words]

\* gps_unpack_sf123(words, &rec): fills the record from the subframe words
\* and leaves the sv_id the caller has set.
gps_unpack_sf123(words, rec) == [rec EXCEPT !.data = words]

---------------------------------------------------------------------------
(* Stores into the satellite arrays.  An index at or past MAX_SV is past   *)
(* the end of svs[]: what it overwrites is whatever lies behind the array. *)

\* Behind almanac.svs[] lies the ephemeris list, the last member of the
\* structure: a store past the end may miss it, or put bytes of the record
\* on its counter or on its first record.
AlmStorePastEnd(g, rec) ==
    { g,
      [g EXCEPT !.ephemeris.n_sv = rec.sv_id],
      [g EXCEPT !.ephemeris.svs[0] = rec] }

\* gps->almanac.svs[i] = rec
AlmStore(g, i, rec) ==
    IF i \in SvIndex THEN { [g EXCEPT !.almanac.svs[i] = rec] }
    ELSE AlmStorePastEnd(g, rec)

\* gps->ephemeris.svs[i] = rec; behind ephemeris.svs[] the structure ends,
\* so a store past the end leaves the accumulator itself as it is.
EphStore(g, i, rec) ==
    IF i \in SvIndex THEN { [g EXCEPT !.ephemeris.svs[i] = rec] }
    ELSE {g}

\* The record svs[i] that a store reads back (the zero record past the end).
SvAt(svs, i) == IF i \in SvIndex THEN svs[i] ELSE ZeroSv

PastEnd(i, name) == IF i \in SvIndex THEN {} ELSE {name}

---------------------------------------------------------------------------
(* The tests the decoders make. *)

\* A wrong sentinel length.
NotAvailableZero(pl_len) == pl_len = 0

\* if (pl_len == 8)  -- "length if not available"
NotAvailable(pl_len) == pl_len = 8

\* A length test that only rejects short payloads.
WrongSizeShort(pl_len, size) ==
    LET a == IntToSizeT(pl_len)
        b == IntToSizeT(size)
    IN  a.carry < b.carry \/ (a.carry = b.carry /\ a.low < b.low)

\* if (pl_len != sizeof(struct ...))
WrongSize(pl_len, size) == IntToSizeT(pl_len) # IntToSizeT(size)

\* A gate that lets every almanac through.
AlmValidAlways(m) == TRUE

\* if (aid_alm->gps_week)
AlmValid(m) == m.gps_week # 0

\* if (aid_eph->present)
EphValid(m) == m.present # 0

\* The UTC gate reading the ionosphere bit.
UtcValidBit2(flags) == BitAnd(flags, 4) # 0

\* if (aid_hui->flags & 0x2)
UtcValid(flags) == BitAnd(flags, 2) # 0

\* if (aid_hui->flags & 0x04)
IonoValid(flags) == BitAnd(flags, 4) # 0

\* A warning only when neither bit is set.
IniInvalidNeither(flags) == BitAnd(flags, 3) = 0

\* if ((aid_ini->flags & 0x03) != 0x03)
IniInvalid(flags) == BitAnd(flags, 3) # 3

---------------------------------------------------------------------------
(* The decoders. *)

ubx_msg_parse_nav_posllh(m) ==
    /\ msg' = m
    /\ gps' = [gps EXCEPT
                 !.fields = @ \cup {"REFPOS"},
                 !.ref_pos = [latitude  |-> MulPow10(m.lat, 7),
                              longitude |-> MulPow10(m.lon, 7),
                              altitude  |-> MulPow10(m.height, 3)]]
    /\ out' = Printed(0, 5)
    /\ UNCHANGED <<oob, ephArrivals, lastTime, sc, profile>>

\* gps->ref_time as AID-INI writes it.
IniRefTime(g, m, now) ==
    [wn |-> m.wn, tow |-> MulPow10(m.tow, 3), when |-> now]

ubx_msg_parse_aid_ini(m) ==
    /\ msg' = m
    /\ \E now \in Clock :
         gps' = [gps EXCEPT !.fields = @ \cup {"REFTIME"},
                            !.ref_time = IniRefTime(gps, m, now)]
    /\ out' = Printed(IF IniInvalid(m.flags) THEN 1 ELSE 0, 3)
    /\ lastTime' = [wn |-> m.wn, ms |-> m.tow]
    /\ UNCHANGED <<oob, ephArrivals, sc, profile>>

\* The UTC block of AID-HUI: the eight fields it commits.
HuiUtc(p) ==
    { [a0 |-> a0, a1 |-> a1, delta_t_ls |-> p.utc_ls,
       t_ot |-> ShiftRight12(p.utc_tot), wn_t |-> p.utc_wnt,
       wn_lsf |-> p.utc_wnf, dn |-> p.utc_dn, delta_t_lsf |-> p.utc_lsf] :
        a0 \in double_to_fixedpoint(p.utc_a0, -30),
        a1 \in double_to_fixedpoint(p.utc_a1, -50) }

\* The Klobuchar block of AID-HUI: the eight coefficients it commits.
HuiIono(p) ==
    { [alpha_0 |-> a0, alpha_1 |-> a1, alpha_2 |-> a2, alpha_3 |-> a3,
       beta_0 |-> b0, beta_1 |-> b1, beta_2 |-> b2, beta_3 |-> b3] :
        a0 \in float_to_fixedpoint(p.klob_a0, -30),
        a1 \in float_to_fixedpoint(p.klob_a1, -27),
        a2 \in float_to_fixedpoint(p.klob_a2, -24),
        a3 \in float_to_fixedpoint(p.klob_a3, -24),
        b0 \in float_to_fixedpoint(p.klob_b0, 11),
        b1 \in float_to_fixedpoint(p.klob_b1, 14),
        b2 \in float_to_fixedpoint(p.klob_b2, 16),
        b3 \in float_to_fixedpoint(p.klob_b3, 16) }

HuiPayloads == {HuiPayloadA, HuiPayloadB}

\* Both blocks of every payload fed to AID-HUI, converted once.
HuiUtcOf == [p \in HuiPayloads |-> HuiUtc(p)]
HuiIonoOf == [p \in HuiPayloads |-> HuiIono(p)]

ubx_msg_parse_aid_hui(m) ==
    LET doUtc  == UtcValid(m.flags)
        doIono == IonoValid(m.flags)
    IN  /\ msg' = m
        /\ \E u \in (IF doUtc THEN HuiUtcOf[m.pl] ELSE {gps.utc}),
              k \in (IF doIono THEN HuiIonoOf[m.pl] ELSE {gps.ionosphere}) :
             gps' = [gps EXCEPT
                       !.fields = @ \cup (IF doUtc THEN {"UTC"} ELSE {})
                                    \cup (IF doIono THEN {"IONOSPHERE"} ELSE {}),
                       !.utc = u,
                       !.ionosphere = k]
        /\ out' = Printed(0, 1 + (IF doUtc THEN 1 ELSE 0)
                               + (IF doIono THEN 1 ELSE 0))
        /\ UNCHANGED <<oob, ephArrivals, lastTime, sc, profile>>

ubx_msg_parse_aid_alm(m) ==
    /\ msg' = m
    /\ IF NotAvailable(m.pl_len)
       THEN /\ out' = Printed(0, 0)
            /\ UNCHANGED <<gps, oob>>
       ELSE IF WrongSize(m.pl_len, SizeofAidAlm)
       THEN /\ out' = Printed(1, 0)
            /\ UNCHANGED <<gps, oob>>
       ELSE /\ out' = Printed(0, 1)
            /\ IF AlmValid(m)
               THEN LET i   == gps.almanac.n_sv
                        g1  == [gps EXCEPT
                                  !.almanac.n_sv = i + 1,
                                  !.fields = @ \cup {"ALMANAC"},
                                  !.almanac.wna = BitAnd(m.gps_week, 255)]
                        rec == [gps_unpack_sf45_almanac(m.alm_words,
                                                        SvAt(g1.almanac.svs, i))
                                  EXCEPT !.sv_id = m.sv_id]
                    IN  /\ i < NSvCap
                        /\ gps' \in AlmStore(g1, i, rec)
                        /\ oob' = oob \cup PastEnd(i, "almanac")
               ELSE UNCHANGED <<gps, oob>>
    /\ UNCHANGED <<ephArrivals, lastTime, sc, profile>>

ubx_msg_parse_aid_eph(m) ==
    /\ msg' = m
    /\ IF NotAvailable(m.pl_len)
       THEN /\ out' = Printed(0, 0)
            /\ UNCHANGED <<gps, oob, ephArrivals>>
       ELSE IF WrongSize(m.pl_len, SizeofAidEph)
       THEN /\ out' = Printed(1, 0)
            /\ UNCHANGED <<gps, oob, ephArrivals>>
       ELSE /\ out' = Printed(0, 1)
            /\ IF EphValid(m)
               THEN LET i   == gps.ephemeris.n_sv
                        g1  == [gps EXCEPT
                                  !.ephemeris.n_sv = i + 1,
                                  !.fields = @ \cup {"EPHEMERIS"}]
                        rec == gps_unpack_sf123(m.eph_words,
                                 [SvAt(g1.ephemeris.svs, i)
                                    EXCEPT !.sv_id = m.sv_id])
                    IN  /\ i < NSvCap
                        /\ gps' \in EphStore(g1, i, rec)
                        /\ oob' = oob \cup PastEnd(i, "ephemeris")
                        /\ ephArrivals' =
                             IF Len(ephArrivals) <= MAX_SV
                             THEN Append(ephArrivals, m.sv_id)
                             ELSE ephArrivals
               ELSE UNCHANGED <<gps, oob, ephArrivals>>
    /\ UNCHANGED <<lastTime, sc, profile>>

\* NAV-TIMEGPS that yields to a reference time already set.
TimegpsRefTimeKeep(g, m, now) ==
    IF "REFTIME" \in g.fields THEN g.ref_time
    ELSE [wn |-> m.week, tow |-> MulPow10(m.itow, 3), when |-> now]

\* gps->ref_time as NAV-TIMEGPS writes it.
TimegpsRefTime(g, m, now) ==
    [wn |-> m.week, tow |-> MulPow10(m.itow, 3), when |-> now]

ubx_msg_parse_nav_timegps(m) ==
    /\ msg' = m
    /\ \E now \in Clock :
         gps' = [gps EXCEPT !.fields = @ \cup {"REFTIME"},
                            !.ref_time = TimegpsRefTime(gps, m, now)]
    /\ out' = Printed(0, 0)
    /\ lastTime' = [wn |-> m.week, ms |-> m.itow]
    /\ UNCHANGED <<oob, ephArrivals, sc, profile>>

---------------------------------------------------------------------------
(* The dispatch table and the message loop that serves it. *)

\* ubx_parse_dt[]: the external dispatcher calls the decoder registered for
\* the class and id of each message it reads, one message at a time.
ubx_parse_dt ==
    \/ \E m \in NavPosllhMsgs  : ubx_msg_parse_nav_posllh(m)
    \/ \E m \in AidIniMsgs     : ubx_msg_parse_aid_ini(m)
    \/ \E m \in AidHuiMsgs     : ubx_msg_parse_aid_hui(m)
    \/ \E m \in AidAlmMsgs     : ubx_msg_parse_aid_alm(m)
    \/ \E m \in AidEphMsgs     : ubx_msg_parse_aid_eph(m)
    \/ \E m \in NavTimegpsMsgs : ubx_msg_parse_nav_timegps(m)

ScIdle ==
    [pc |-> "idle", kind |-> "none", f |-> Float(0, 0), sf |-> 0,
     ret |-> 0, iters |-> 0, back |-> 0]

Init ==
    /\ gps = ZeroGps
    /\ msg = [type |-> "none"]
    /\ out = Printed(0, 0)
    /\ oob = {}
    /\ ephArrivals = <<>>
    /\ lastTime = [wn |-> 0, ms |-> -1]
    /\ sc = ScIdle
    /\ profile \in Profiles

Next == ubx_parse_dt

Spec == Init /\ [][Next]_vars

---------------------------------------------------------------------------
(* The scaling helpers on their own: one call, and a second call that      *)
(* feeds the integer result back with the opposite scale factor.           *)

\* The scale factors the decoders pass (AID-HUI, UTC and Klobuchar blocks).
DecoderScaleFactors == {-30, -50, -27, -24, 11, 14, 16}

ScaleFactors == ((-MaxSf) .. MaxSf) \cup DecoderScaleFactors

FloatInputs ==
    { Float(m, e) : m \in (-MaxMant) .. MaxMant, e \in (-MaxExp) .. MaxExp }

\* An int passed for the parameter float f: rounded to 24 significant bits,
\* to nearest, ties to even.
IntToFloat(i) ==
    IF i = INT_MIN THEN Float(-1, 31)
    ELSE IF Abs(i) < 2 ^ 24 THEN Float(i, 0)
    ELSE LET a    == Abs(i)
             s    == CHOOSE k \in 1 .. 8 :
                        /\ a \div (2 ^ k) < 2 ^ 24
                        /\ a \div (2 ^ (k - 1)) >= 2 ^ 24
             q    == a \div (2 ^ s)
             r    == a % (2 ^ s)
             half == 2 ^ (s - 1)
             up   == r > half \/ (r = half /\ q % 2 = 1)
             q1   == IF up THEN q + 1 ELSE q
         IN  Float(IF i < 0 THEN -q1 ELSE q1, s)

\* An int passed for the parameter double d: exact.
IntToDouble(i) == IF i = INT_MIN THEN Float(-1, 31) ELSE Float(i, 0)

CallFloat ==
    /\ sc.pc = "idle"
    /\ \E f \in FloatInputs, sf \in ScaleFactors :
         \E r \in float_to_fixedpoint(f, sf) :
           sc' = [pc |-> "returned", kind |-> "float", f |-> f, sf |-> sf,
                  ret |-> r, iters |-> float_scaled(f, sf).iters, back |-> 0]
    /\ UNCHANGED <<gps, msg, out, oob, ephArrivals, lastTime, profile>>

CallDouble ==
    /\ sc.pc = "idle"
    /\ \E d \in FloatInputs, sf \in ScaleFactors :
         \E r \in double_to_fixedpoint(d, sf) :
           sc' = [pc |-> "returned", kind |-> "double", f |-> d, sf |-> sf,
                  ret |-> r, iters |-> double_scaled(d, sf).iters, back |-> 0]
    /\ UNCHANGED <<gps, msg, out, oob, ephArrivals, lastTime, profile>>

RoundTripFloat ==
    /\ sc.pc = "returned"
    /\ sc.kind = "float"
    /\ \E b \in float_to_fixedpoint(IntToFloat(sc.ret), -sc.sf) :
         sc' = [sc EXCEPT !.pc = "back", !.back = b]
    /\ UNCHANGED <<gps, msg, out, oob, ephArrivals, lastTime, profile>>

RoundTripDouble ==
    /\ sc.pc = "returned"
    /\ sc.kind = "double"
    /\ \E b \in double_to_fixedpoint(IntToDouble(sc.ret), -sc.sf) :
         sc' = [sc EXCEPT !.pc = "back", !.back = b]
    /\ UNCHANGED <<gps, msg, out, oob, ephArrivals, lastTime, profile>>

ScaleDone ==
    /\ sc.pc # "idle"
    /\ sc' = ScIdle
    /\ UNCHANGED <<gps, msg, out, oob, ephArrivals, lastTime, profile>>

ScaleNext ==
    \/ CallFloat
    \/ CallDouble
    \/ RoundTripFloat
    \/ RoundTripDouble
    \/ ScaleDone

ScaleSpec == Init /\ [][ScaleNext]_vars

---------------------------------------------------------------------------
(* Properties of the scaling helpers, stated for ScaleSpec. *)

\* m / d with the fraction dropped, from what truncation toward zero means:
\* the integer of the same sign that is nearest to zero-ward of the quotient.
TruncQuot(m, d) ==
    CHOOSE q \in (-Abs(m)) .. Abs(m) :
        /\ q * m >= 0
        /\ Abs(q) * d <= Abs(m)
        /\ Abs(m) < (Abs(q) + 1) * d

\* Whether v * 2^(-sf), with its fraction dropped, is a 32-bit int.
ScaledFits(v, sf) ==
    LET k == v.e - sf
    IN  \/ v.m = 0
        \/ k < 0
        \/ k <= 30 /\ Abs(v.m) <= INT_MAX \div (2 ^ k)
        \/ v.m < 0 /\ k <= 31 /\ -v.m = 2 ^ (31 - k)

\* v * 2^(-sf) with its fraction dropped, where that is a 32-bit int.
ExpectedScale(v, sf) ==
    LET k == v.e - sf
    IN  IF v.m = 0 THEN 0
        ELSE IF k >= 0
             THEN (IF v.m < 0 /\ k >= 1 /\ k <= 31 /\ -v.m = 2 ^ (31 - k)
                   THEN INT_MIN ELSE v.m * (2 ^ k))
        ELSE IF -k > 30 THEN 0
        ELSE TruncQuot(v.m, 2 ^ (-k))

One == Float(1, 0)
Four == Float(1, 2)

\* scale(1.0, -1) == 2, scale(1.0, 1) == 0, scale(4.0, 2) == 1, both widths.
ScaleExamples ==
    /\ float_to_fixedpoint(One, -1) = {2}
    /\ float_to_fixedpoint(One, 1) = {0}
    /\ float_to_fixedpoint(Four, 2) = {1}
    /\ double_to_fixedpoint(One, -1) = {2}
    /\ double_to_fixedpoint(One, 1) = {0}
    /\ double_to_fixedpoint(Four, 2) = {1}

\* C9 as stated: for every value v and every scale factor sf, either helper
\* returns v * 2^(-sf) truncated toward zero, after exactly |sf| iterations.
C9_EveryValueScaled ==
    sc.pc # "idle" =>
        /\ ScaledFits(sc.f, sc.sf)
        /\ sc.ret = ExpectedScale(sc.f, sc.sf)
        /\ sc.iters = Abs(sc.sf)

\* C9 amended: the loop always runs exactly |sf| times, and whenever the
\* scaled value truncated toward zero fits a 32-bit int, either helper
\* returns exactly that value (also for negative v); in particular
\* scale(1.0, -1) = 2, scale(1.0, 1) = 0 and scale(4.0, 2) = 1.
C9_ScaledWhenItFits ==
    /\ ScaleExamples
    /\ sc.pc # "idle" =>
         /\ sc.iters = Abs(sc.sf)
         /\ ScaledFits(sc.f, sc.sf) => sc.ret = ExpectedScale(sc.f, sc.sf)

\* C9 witness: the 32-bit helper has scaled -3 by sf = 1 (-1.5) in one
\* iteration and returned -1.
C9_Witness ==
    /\ sc.pc = "returned"
    /\ sc.kind = "float"
    /\ sc.f = Float(-3, 0)
    /\ sc.sf = 1
    /\ sc.ret = -1
    /\ sc.iters = 1

\* |b - v| <= |v| / 1024, a tolerance far wider than floating-point rounding.
WithinTolerance(b, v) ==
    LET big == 2 * MaxMant * (2 ^ MaxExp)
        dn  == IF v.e < 0 THEN 2 ^ (-v.e) ELSE 1
        dp  == IF v.e < 0 THEN 1 ELSE 2 ^ v.e
    IN  /\ b <= big
        /\ b >= -big
        /\ 1024 * Abs(b * dn - v.m * dp) <= Abs(v.m) * dp

TruncToMultiple(v, g) == ExpectedScale(v, g) * (2 ^ g)

---------------------------------------------------------------------------
(* Properties of the decoders, stated for Spec.  msg' is the message      *)
(* of the call a step makes, so a formula over msg' and the primed         *)
(* accumulator speaks about that one call.                                 *)

\* C1: after any sequence of decoder calls on an accumulator that starts
\* with empty lists, neither n_sv exceeds MAX_SV and no record is written
\* at an index >= MAX_SV.
C1_CountsWithinCapacity ==
    /\ gps.almanac.n_sv <= MAX_SV
    /\ gps.ephemeris.n_sv <= MAX_SV
    /\ oob = {}

IsSatMsg(m) == m.type \in {"AID_ALM", "AID_EPH"}

ExactSize(m) == IF m.type = "AID_ALM" THEN SizeofAidAlm ELSE SizeofAidEph

\* C2: an AID-ALM or AID-EPH call with payload length exactly 8 leaves the
\* whole accumulator as it was, whatever the payload holds, and prints
\* nothing.
C2_SentinelLeavesAll ==
    [][ (IsSatMsg(msg') /\ msg'.pl_len = 8) =>
            /\ gps' = gps
            /\ oob' = oob
            /\ out'.stderr = 0
            /\ out'.stdout = 0 ]_vars

\* C2 witness: the sentinel length was handed to AID-ALM with a payload
\* that would otherwise have been committed, on a list that holds records.
C2_Witness ==
    /\ msg.type = "AID_ALM"
    /\ msg.pl_len = 8
    /\ msg.gps_week # 0
    /\ gps.almanac.n_sv = 1
    /\ out = Printed(0, 0)

\* C3: an AID-ALM or AID-EPH call whose payload length is neither 8 nor the
\* size of the message structure leaves the accumulator as it was and
\* prints exactly one line, the error; so for 0 and for negative lengths.
C3_WrongLengthOneError ==
    [][ (IsSatMsg(msg') /\ msg'.pl_len # 8 /\ msg'.pl_len # ExactSize(msg')) =>
            /\ gps' = gps
            /\ oob' = oob
            /\ out'.stderr = 1
            /\ out'.stdout = 0 ]_vars

\* C3 witness: AID-EPH was called with length -1 on a list that holds a
\* record, and one error line came out.
C3_Witness ==
    /\ msg.type = "AID_EPH"
    /\ msg.pl_len = -1
    /\ msg.present # 0
    /\ gps.ephemeris.n_sv = 1
    /\ out = Printed(1, 0)

HasField(g, name) == name \in g.fields

\* C4: an AID-ALM call of the exact size with gps_week = 0 changes neither
\* almanac.n_sv, the ALMANAC flag, wna nor any almanac record; an AID-EPH
\* call of the exact size with present = 0 changes neither ephemeris.n_sv,
\* the EPHEMERIS flag nor any ephemeris record.
C4_InvalidMarkerCommitsNothing ==
    [][ /\ (msg'.type = "AID_ALM" /\ msg'.pl_len = SizeofAidAlm
                                  /\ msg'.gps_week = 0) =>
              /\ gps'.almanac = gps.almanac
              /\ HasField(gps', "ALMANAC") <=> HasField(gps, "ALMANAC")
        /\ (msg'.type = "AID_EPH" /\ msg'.pl_len = SizeofAidEph
                                  /\ msg'.present = 0) =>
              /\ gps'.ephemeris = gps.ephemeris
              /\ HasField(gps', "EPHEMERIS") <=> HasField(gps, "EPHEMERIS")
      ]_vars

\* C4 witness: an exact-size AID-ALM with gps_week = 0 was decoded (its
\* debug line is out) while the list held one record of another satellite.
C4_Witness ==
    /\ msg.type = "AID_ALM"
    /\ msg.pl_len = SizeofAidAlm
    /\ msg.gps_week = 0
    /\ msg.sv_id = 2
    /\ gps.almanac.n_sv = 1
    /\ gps.almanac.svs[0].sv_id = 1
    /\ out = Printed(0, 1)

Distinct(seq) ==
    \A i, j \in 1 .. Len(seq) : i # j => seq[i] # seq[j]

\* C5: from an empty ephemeris list, after N <= MAX_SV committed AID-EPH
\* messages with distinct satellite ids, interleaved with any other
\* messages, ephemeris.n_sv = N and record i carries the id of the i-th of
\* them.
C5_EphemerisInArrivalOrder ==
    (Len(ephArrivals) <= MAX_SV /\ Distinct(ephArrivals)) =>
        /\ gps.ephemeris.n_sv = Len(ephArrivals)
        /\ \A i \in 1 .. Len(ephArrivals) :
             gps.ephemeris.svs[i - 1].sv_id = ephArrivals[i]

BitSet(flags, bit) == (flags \div bit) % 2 = 1

\* C6: an AID-HUI call changes the UTC flag and the UTC model only if bit
\* 0x2 of flags is set, and the IONOSPHERE flag and the ionosphere model
\* only if bit 0x4 is set, each gate on its own; a set bit commits its block.
C6_HuiGatesIndependent ==
    [][ msg'.type = "AID_HUI" =>
          /\ ~BitSet(msg'.flags, 2) =>
                /\ gps'.utc = gps.utc
                /\ HasField(gps', "UTC") <=> HasField(gps, "UTC")
          /\ ~BitSet(msg'.flags, 4) =>
                /\ gps'.ionosphere = gps.ionosphere
                /\ HasField(gps', "IONOSPHERE") <=> HasField(gps, "IONOSPHERE")
          /\ BitSet(msg'.flags, 2) =>
                HasField(gps', "UTC") /\ gps'.utc \in HuiUtcOf[msg'.pl]
          /\ BitSet(msg'.flags, 4) =>
                HasField(gps', "IONOSPHERE")
                /\ gps'.ionosphere \in HuiIonoOf[msg'.pl]
      ]_vars

\* C6 witness: an AID-HUI with only bit 0x4 set (and bit 0x1, which gates
\* nothing) has committed the ionosphere model while UTC is still unset.
C6_Witness ==
    /\ msg.type = "AID_HUI"
    /\ msg.flags = 5
    /\ HasField(gps, "IONOSPHERE")
    /\ ~HasField(gps, "UTC")
    /\ gps.utc = ZeroGps.utc
    /\ gps.ionosphere # ZeroGps.ionosphere

IsTimeMsg(m) == m.type \in {"AID_INI", "NAV_TIMEGPS"}

\* C7: once an AID-INI or NAV-TIMEGPS has been dispatched, REFTIME is set
\* and week number and time of week are those of the last such message,
\* whichever of the two it was; no other message changes ref_time.
C7_RefTimeLastWriteWins ==
    /\ [](lastTime.ms # -1 =>
            /\ HasField(gps, "REFTIME")
            /\ gps.ref_time.wn = lastTime.wn
            /\ gps.ref_time.tow = [raw |-> lastTime.ms, exp10 |-> -3])
    /\ [][ ~IsTimeMsg(msg') =>
              (gps'.ref_time = gps.ref_time /\ lastTime' = lastTime) ]_vars

\* C7 witness: NAV-TIMEGPS wrote week 2102 over an earlier reference time
\* and other decoders ran afterwards without disturbing it.
C7_Witness ==
    /\ msg.type = "AID_EPH"
    /\ lastTime.wn = 2102
    /\ gps.ref_time.wn = 2102
    /\ gps.ref_time.when = 2
    /\ HasField(gps, "ALMANAC")
    /\ HasField(gps, "UTC")

\* C8: AID-INI sets REFTIME and commits week number and tow * 1e-3 for
\* every value of flags, and prints its warning exactly when bits 0 and 1
\* are not both set.
C8_IniFailOpen ==
    msg.type = "AID_INI" =>
        /\ HasField(gps, "REFTIME")
        /\ gps.ref_time.wn = msg.wn
        /\ gps.ref_time.tow = [raw |-> msg.tow, exp10 |-> -3]
        /\ out.stderr = (IF msg.flags % 4 = 3 THEN 0 ELSE 1)

\* C8 witness: an AID-INI with neither validity bit set has overwritten a
\* reference time of NAV-TIMEGPS and printed the warning.
C8_Witness ==
    /\ msg.type = "AID_INI"
    /\ msg.flags = 0
    /\ msg.wn = 2100
    /\ gps.ref_time.wn = 2100
    /\ out.stderr = 1

===========================================================================
